---- MODULE Spec2Model ----
(***************************************************************************)
(* Terminal environment utilities: findExecutable, mergeEnvironments,      *)
(* createTerminalEnvironment, getLangEnvVariable, shouldSetLangEnvVariable *)
(* and getCwd.                                                             *)
(*                                                                         *)
(* Representation.  A JavaScript string is the sequence of its characters  *)
(* (one-character TLA+ strings), so "" is <<>>.  null and undefined are    *)
(* the two one-element sequences NULL and UNDEFINED, whose element is not  *)
(* a character.  An optional object or list is None or Some(v).  A plain   *)
(* object is the sequence of its own properties [key, value] in insertion  *)
(* order, which is the order Object.keys and for..in enumerate.            *)
(***************************************************************************)
EXTENDS Integers, Sequences, FiniteSets, TLC

VARIABLES isWindows, fe, mg, te, cw, lg

vars == <<isWindows, fe, mg, te, cw, lg>>

\* ------------------------------------------------------------------ bounds

\* Longest explicit search list handed to findExecutable.
MaxPaths == 2

\* Most properties of an object handed to mergeEnvironments.
MaxMergeEntries == 2

\* Most properties of the launch config's env in strict mode.
MaxStrictEntries == 2

\* Most properties of each of the base environment and the two overlays.
MaxLayerEntries == 2

\* Most stamped keys each of the base environment and the two overlays holds.
MaxStampEntries == 1

\* Longest locale tag, in characters.
MaxLocaleLen == 5

\* Most pieces a LANG value is put together from.
MaxLangPieces == 3

\* ----------------------------------------------------------------- strings

NULL == <<"null">>
UNDEFINED == <<"undefined">>
None == <<>>
Some(v) == <<v>>

isString(v) == v # NULL /\ v # UNDEFINED

\* JavaScript truthiness of a string | null | undefined value.
Truthy(v) == isString(v) /\ v # <<>>

LowerLetters == <<"a","b","c","d","e","f","g","h","i","j","k","l","m",
                  "n","o","p","q","r","s","t","u","v","w","x","y","z">>
UpperLetters == <<"A","B","C","D","E","F","G","H","I","J","K","L","M",
                  "N","O","P","Q","R","S","T","U","V","W","X","Y","Z">>

IsLetter(c) == \E i \in 1..26 : LowerLetters[i] = c \/ UpperLetters[i] = c

LowerToUpper ==
    [c \in {LowerLetters[i] : i \in 1..26} |->
        UpperLetters[CHOOSE i \in 1..26 : LowerLetters[i] = c]]

UpperToLower ==
    [c \in {UpperLetters[i] : i \in 1..26} |->
        LowerLetters[CHOOSE i \in 1..26 : UpperLetters[i] = c]]

CharToUpper(c) == IF c \in DOMAIN LowerToUpper THEN LowerToUpper[c] ELSE c

CharToLower(c) == IF c \in DOMAIN UpperToLower THEN UpperToLower[c] ELSE c

toUpperCase(s) == [i \in 1..Len(s) |-> CharToUpper(s[i])]
toLowerCase(s) == [i \in 1..Len(s) |-> CharToLower(s[i])]

EndsWith(s, suffix) ==
    /\ Len(s) >= Len(suffix)
    /\ SubSeq(s, Len(s) - Len(suffix) + 1, Len(s)) = suffix

\* String.prototype.split with a one-character separator: "" splits to [""].
RECURSIVE split(_, _)
split(s, sep) ==
    IF \A i \in 1..Len(s) : s[i] # sep
    THEN <<s>>
    ELSE LET i == CHOOSE j \in 1..Len(s) : s[j] = sep /\ \A k \in 1..(j - 1) : s[k] # sep
         IN  <<SubSeq(s, 1, i - 1)>> \o split(SubSeq(s, i + 1, Len(s)), sep)

\* Array.prototype.join with a one-character separator.
RECURSIVE join(_, _)
join(parts, sep) ==
    IF parts = <<>> THEN <<>>
    ELSE IF Len(parts) = 1 THEN parts[1]
    ELSE parts[1] \o <<sep>> \o join(Tail(parts), sep)

\* ----------------------------------------------------------------- objects

Keys(o) == {o[i].key : i \in 1..Len(o)}

Has(o, k) == k \in Keys(o)

Get(o, k) == IF Has(o, k) THEN o[CHOOSE i \in 1..Len(o) : o[i].key = k].value ELSE UNDEFINED

\* o[k] = v: an existing property keeps its place, a new one is appended.
Set(o, k, v) ==
    IF Has(o, k)
    THEN [i \in 1..Len(o) |-> IF o[i].key = k THEN [key |-> k, value |-> v] ELSE o[i]]
    ELSE Append(o, [key |-> k, value |-> v])

\* delete o[k]
Delete(o, k) == SelectSeq(o, LAMBDA p : p.key # k)

\* objects.getCaseInsensitive: the value under the first key equal to `key`
\* ignoring case, else target[key].
getCaseInsensitive(target, key) ==
    IF \E i \in 1..Len(target) : toLowerCase(target[i].key) = toLowerCase(key)
    THEN target[CHOOSE i \in 1..Len(target) :
                    /\ toLowerCase(target[i].key) = toLowerCase(key)
                    /\ \A j \in 1..(i - 1) : toLowerCase(target[j].key) # toLowerCase(key)].value
    ELSE Get(target, key)

\* ------------------------------------------------------------------- paths
\* vs/base/common/path: path.posix off Windows, path.win32 on Windows (drive
\* letters and both separators; UNC roots are not modelled).

PathSep(win) == IF win THEN "\\" ELSE "/"

PathDelimiter(win) == IF win THEN ";" ELSE ":"

IsPathSep(win, c) == c = "/" \/ (win /\ c = "\\")

\* Length of the device prefix ("c:") of a win32 path, 0 when there is none.
DeviceLen(win, p) == IF win /\ Len(p) >= 2 /\ IsLetter(p[1]) /\ p[2] = ":" THEN 2 ELSE 0

isAbsolute(win, p) ==
    LET d == DeviceLen(win, p)
    IN  Len(p) > d /\ IsPathSep(win, p[d + 1])

\* The segments of p between separators, empty segments included.
RECURSIVE PathSegments(_, _)
PathSegments(win, p) ==
    IF \A i \in 1..Len(p) : ~IsPathSep(win, p[i])
    THEN <<p>>
    ELSE LET i == CHOOSE j \in 1..Len(p) :
                      IsPathSep(win, p[j]) /\ \A k \in 1..(j - 1) : ~IsPathSep(win, p[k])
         IN  <<SubSeq(p, 1, i - 1)>> \o PathSegments(win, SubSeq(p, i + 1, Len(p)))

\* normalizeString: drops "" and ".", resolves ".." against the segments kept.
RECURSIVE NormalizeSegments(_, _, _)
NormalizeSegments(segs, kept, allowAboveRoot) ==
    IF segs = <<>> THEN kept
    ELSE LET s == Head(segs) IN
         IF s = <<>> \/ s = <<".">>
         THEN NormalizeSegments(Tail(segs), kept, allowAboveRoot)
         ELSE IF s = <<".", ".">>
         THEN IF kept # <<>> /\ kept[Len(kept)] # <<".", ".">>
              THEN NormalizeSegments(Tail(segs), SubSeq(kept, 1, Len(kept) - 1), allowAboveRoot)
              ELSE IF allowAboveRoot
                   THEN NormalizeSegments(Tail(segs), Append(kept, s), allowAboveRoot)
                   ELSE NormalizeSegments(Tail(segs), kept, allowAboveRoot)
         ELSE NormalizeSegments(Tail(segs), Append(kept, s), allowAboveRoot)

normalize(win, p) ==
    IF p = <<>> THEN <<".">>
    ELSE LET d        == DeviceLen(win, p)
             device   == SubSeq(p, 1, d)
             rest     == SubSeq(p, d + 1, Len(p))
             abs      == rest # <<>> /\ IsPathSep(win, rest[1])
             trailing == rest # <<>> /\ IsPathSep(win, rest[Len(rest)])
             tail0    == join(NormalizeSegments(PathSegments(win, rest), <<>>, ~abs), PathSep(win))
             tail1    == IF tail0 = <<>> /\ ~abs THEN <<".">> ELSE tail0
             tail2    == IF tail0 # <<>> /\ trailing THEN tail1 \o <<PathSep(win)>> ELSE tail1
         IN  device \o (IF abs THEN <<PathSep(win)>> ELSE <<>>) \o tail2

\* path.join(...parts): the non-empty parts joined by the separator, normalized.
pathJoin(win, parts) ==
    LET used == SelectSeq(parts, LAMBDA s : s # <<>>)
    IN  IF used = <<>> THEN <<".">> ELSE normalize(win, join(used, PathSep(win)))

\* path.dirname
dirname(win, p) ==
    LET d       == DeviceLen(win, p)
        rootEnd == IF Len(p) > d /\ IsPathSep(win, p[d + 1]) THEN d + 1 ELSE d
        cuts    == {i \in (rootEnd + 1)..Len(p) :
                        /\ IsPathSep(win, p[i])
                        /\ \E k \in (i + 1)..Len(p) : ~IsPathSep(win, p[k])}
    IN  IF p = <<>> THEN <<".">>
        ELSE IF cuts = {}
        THEN (IF rootEnd = 0 THEN <<".">> ELSE SubSeq(p, 1, rootEnd))
        ELSE SubSeq(p, 1, (CHOOSE i \in cuts : \A j \in cuts : j <= i) - 1)

\* process.cwd()
ProcessCwd == <<"/", "p">>

\* ---------------------------------------------------------- findExecutable

FE_Idle == [pc |-> "idle", command |-> <<>>, cwdGiven |-> UNDEFINED, pathsGiven |-> None,
            env |-> <<>>, cwd |-> <<>>, paths |-> <<>>, idx |-> 0, fullPath |-> <<>>,
            pending |-> <<>>, probes |-> <<>>, result |-> UNDEFINED]

\* for (let pathEntry of paths): the candidate of one search-list entry.
findExecutable_fullPath(win, cwd, pathEntry, command) ==
    IF isAbsolute(win, pathEntry)
    THEN pathJoin(win, <<pathEntry, command>>)
    ELSE pathJoin(win, <<cwd, pathEntry, command>>)

withExtension_exe(fullPath) == fullPath \o <<".", "e", "x", "e">>

\* Mutant: .exe is tried where .com belongs.
withExtension_com_asExe(fullPath) == fullPath \o <<".", "e", "x", "e">>

withExtension_com(fullPath) == fullPath \o <<".", "c", "o", "m">>

\* Mutant: the candidate is returned whatever the probe answered.
findExecutable_return_unchecked(found, p) == p

\* `await exists(p) ? p : undefined`
findExecutable_return(found, p) == IF found THEN p ELSE UNDEFINED

\* The search list in effect: the explicit paths, else the PATH entry of env
\* (looked up ignoring case) split on the delimiter, else none.
findExecutable_paths(win, pathsGiven, env) ==
    LET envPath == getCaseInsensitive(env, <<"P", "A", "T", "H">>)
    IN  IF pathsGiven = None /\ isString(envPath)
        THEN Some(split(envPath, PathDelimiter(win)))
        ELSE pathsGiven

\* The call up to its first await.
findExecutable_Call(command, cwdGiven, pathsGiven, env) ==
    /\ fe.pc = "idle"
    /\ LET cwd   == IF cwdGiven = UNDEFINED THEN ProcessCwd ELSE cwdGiven
           paths == findExecutable_paths(isWindows, pathsGiven, env)
           frame == [FE_Idle EXCEPT !.command = command, !.cwdGiven = cwdGiven,
                                    !.pathsGiven = pathsGiven, !.env = env, !.cwd = cwd]
       IN  fe' =
             IF isAbsolute(isWindows, command)
             THEN [frame EXCEPT !.pc = "abs", !.pending = command]
             ELSE IF dirname(isWindows, command) # <<".">>
             THEN [frame EXCEPT !.pc = "dir", !.pending = pathJoin(isWindows, <<cwd, command>>)]
             ELSE IF paths = None \/ paths = Some(<<>>)
             THEN [frame EXCEPT !.pc = "nopath", !.pending = pathJoin(isWindows, <<cwd, command>>)]
             ELSE LET fullPath == findExecutable_fullPath(isWindows, cwd, paths[1][1], command)
                  IN  [frame EXCEPT !.pc = "loop", !.paths = paths[1], !.idx = 1,
                                    !.fullPath = fullPath, !.pending = fullPath]
    /\ UNCHANGED <<isWindows, mg, te, cw, lg>>

FE_Probed(found) == Append(fe.probes, [path |-> fe.pending, found |-> found])

FE_Done(found) ==
    [fe EXCEPT !.pc = "done", !.probes = FE_Probed(found),
               !.result = findExecutable_return(found, fe.pending), !.pending = <<>>]

\* The loop moves to the next search-list entry, or leaves for the last probe.
FE_NextEntry(found) ==
    IF fe.idx < Len(fe.paths)
    THEN LET fullPath == findExecutable_fullPath(isWindows, fe.cwd, fe.paths[fe.idx + 1], fe.command)
         IN  [fe EXCEPT !.pc = "loop", !.idx = fe.idx + 1, !.probes = FE_Probed(found),
                        !.fullPath = fullPath, !.pending = fullPath]
    ELSE [fe EXCEPT !.pc = "final", !.probes = FE_Probed(found),
                    !.pending = pathJoin(isWindows, <<fe.cwd, fe.command>>)]

\* return await exists(command) ? command : undefined;
findExecutable_AwaitAbsolute(found) ==
    /\ fe.pc = "abs"
    /\ fe' = FE_Done(found)
    /\ UNCHANGED <<isWindows, mg, te, cw, lg>>

\* The command has a directory component: one probe of cwd/command.
findExecutable_AwaitRelative(found) ==
    /\ fe.pc = "dir"
    /\ fe' = FE_Done(found)
    /\ UNCHANGED <<isWindows, mg, te, cw, lg>>

\* No search list: one probe of cwd/command.
findExecutable_AwaitNoPath(found) ==
    /\ fe.pc = "nopath"
    /\ fe' = FE_Done(found)
    /\ UNCHANGED <<isWindows, mg, te, cw, lg>>

\* if (await exists(fullPath)) return fullPath;
findExecutable_AwaitEntry(found) ==
    /\ fe.pc = "loop"
    /\ fe' = IF found THEN FE_Done(found)
             ELSE IF isWindows
             THEN [fe EXCEPT !.pc = "com", !.probes = FE_Probed(found),
                             !.pending = withExtension_com(fe.fullPath)]
             ELSE FE_NextEntry(found)
    /\ UNCHANGED <<isWindows, mg, te, cw, lg>>

\* withExtension = fullPath + '.com'
findExecutable_AwaitCom(found) ==
    /\ fe.pc = "com"
    /\ fe' = IF found THEN FE_Done(found)
             ELSE [fe EXCEPT !.pc = "exe", !.probes = FE_Probed(found),
                             !.pending = withExtension_exe(fe.fullPath)]
    /\ UNCHANGED <<isWindows, mg, te, cw, lg>>

\* withExtension = fullPath + '.exe'
findExecutable_AwaitExe(found) ==
    /\ fe.pc = "exe"
    /\ fe' = IF found THEN FE_Done(found) ELSE FE_NextEntry(found)
    /\ UNCHANGED <<isWindows, mg, te, cw, lg>>

\* After the loop: the last probe of cwd/command.
findExecutable_AwaitFinal(found) ==
    /\ fe.pc = "final"
    /\ fe' = FE_Done(found)
    /\ UNCHANGED <<isWindows, mg, te, cw, lg>>

\* The promise has settled; the next call may start.
findExecutable_Settled ==
    /\ fe.pc = "done"
    /\ fe' = FE_Idle
    /\ UNCHANGED <<isWindows, mg, te, cw, lg>>

\* Inputs of findExecutable.
FE_Commands == {<<"x">>, <<"d", "/", "x">>, <<"/", "x">>}
FE_Cwds == {UNDEFINED, <<"/", "w">>}
FE_PathEntries == {<<"/", "a">>, <<"/", "b">>, <<"r">>, <<>>}
FE_PathLists == UNION {[1..n -> FE_PathEntries] : n \in 0..MaxPaths}
FE_Envs ==
    {<<>>,
     <<[key |-> <<"P", "A", "T", "H">>, value |-> <<>>]>>,
     <<[key |-> <<"H">>, value |-> <<"h">>],
       [key |-> <<"P", "a", "t", "h">>,
        value |-> <<"/", "a", PathDelimiter(isWindows), "r">>]>>}

\* ------------------------------------------------------- mergeEnvironments

\* Mutant: the overlay key is used as spelled, whatever the parent holds.
mergeEnvironments_actualKey_asSpelled(win, parent, configKey) == configKey

\* The key written for configKey: on Windows the first key of parent equal to
\* it ignoring case, else configKey itself.
mergeEnvironments_actualKey(win, parent, configKey) ==
    IF win /\ \E i \in 1..Len(parent) : toLowerCase(configKey) = toLowerCase(parent[i].key)
    THEN parent[CHOOSE i \in 1..Len(parent) :
                   /\ toLowerCase(configKey) = toLowerCase(parent[i].key)
                   /\ \A j \in 1..(i - 1) : toLowerCase(configKey) # toLowerCase(parent[j].key)].key
    ELSE configKey

mergeEnvironmentValue(env, key, value) ==
    IF isString(value) THEN Set(env, key, value) ELSE Delete(env, key)

\* One iteration of the loop over the keys of `other`.
mergeEnvironments_key(win, parent, configKey, value) ==
    IF value # UNDEFINED
    THEN mergeEnvironmentValue(parent, mergeEnvironments_actualKey(win, parent, configKey), value)
    ELSE parent

RECURSIVE mergeEnvironments_keys(_, _, _)
mergeEnvironments_keys(win, parent, entries) ==
    IF entries = <<>> THEN parent
    ELSE mergeEnvironments_keys(
             win, mergeEnvironments_key(win, parent, entries[1].key, entries[1].value),
             Tail(entries))

\* mergeEnvironments(parent, other): the parent after the call.
mergeEnvironments(win, parent, other) ==
    IF other = None THEN parent ELSE mergeEnvironments_keys(win, parent, other[1])

MG_Idle == [pc |-> "idle", parent0 |-> <<>>, other |-> None, parent |-> <<>>, idx |-> 0]

\* if (!other) return; else the loop starts at the first key of other.
mergeEnvironments_Call(parent, other) ==
    /\ mg.pc = "idle"
    /\ mg' = [pc |-> IF other = None \/ other = Some(<<>>) THEN "done" ELSE "keys",
              parent0 |-> parent, other |-> other, parent |-> parent, idx |-> 1]
    /\ UNCHANGED <<isWindows, fe, te, cw, lg>>

\* The loop body for the next key of other.
mergeEnvironments_Key ==
    /\ mg.pc = "keys"
    /\ LET entry == mg.other[1][mg.idx]
       IN  mg' = [mg EXCEPT !.parent = mergeEnvironments_key(isWindows, mg.parent, entry.key, entry.value),
                            !.idx = mg.idx + 1,
                            !.pc = IF mg.idx = Len(mg.other[1]) THEN "done" ELSE "keys"]
    /\ UNCHANGED <<isWindows, fe, te, cw, lg>>

mergeEnvironments_Return ==
    /\ mg.pc = "done"
    /\ mg' = MG_Idle
    /\ UNCHANGED <<isWindows, fe, te, cw, lg>>

\* The objects of at most `max` properties with keys of `keys` (no key twice)
\* and values of `values`, in every insertion order.
Objects(keys, values, max) ==
    {o \in UNION {[1..n -> [key : keys, value : values]] : n \in 0..max} :
        \A i, j \in 1..Len(o) : i # j => o[i].key # o[j].key}

K_PATH == <<"P", "A", "T", "H">>
K_Path == <<"P", "a", "t", "h">>
K_A == <<"A">>

\* Inputs of mergeEnvironments.
MG_Keys == {K_PATH, K_Path, K_A}
MG_Parents == Objects(MG_Keys, {<<"o">>, <<>>}, MaxMergeEntries)
MG_Others == {None} \cup {Some(o) : o \in Objects(MG_Keys, {<<"x">>, NULL, UNDEFINED}, MaxMergeEntries)}

\* -------------------------------------------------------- variable resolver
\* type VariableResolver = (str: string) => string, which may throw.  A resolver
\* of the model replaces every "$" (a variable reference) by its `subst` and
\* throws on a string holding "!" (a reference it cannot resolve).

THROWN == <<"throw">>

RECURSIVE Substitute(_, _)
Substitute(s, subst) ==
    IF s = <<>> THEN <<>>
    ELSE (IF Head(s) = "$" THEN subst ELSE <<Head(s)>>) \o Substitute(Tail(s), subst)

variableResolver(resolver, str) ==
    IF \E i \in 1..Len(str) : str[i] = "!" THEN THROWN ELSE Substitute(str, resolver.subst)

\* ------------------------------------------------------------------ getCwd

\* Make the drive letter uppercase on Windows.
sanitizeCwd(win, cwd) ==
    IF win /\ cwd # <<>> /\ Len(cwd) >= 2 /\ cwd[2] = ":"
    THEN <<CharToUpper(cwd[1])>> \o SubSeq(cwd, 2, Len(cwd))
    ELSE cwd

\* _resolveCwd: the resolved cwd, undefined when the resolver threw; `logged`
\* tells whether logService.error was called, `threw` whether the call threw.
resolveCwd(cwd, resolver, logService) ==
    IF resolver # None
    THEN (IF variableResolver(resolver[1], cwd) = THROWN
          THEN [value |-> UNDEFINED, logged |-> logService, threw |-> FALSE]
          ELSE [value |-> variableResolver(resolver[1], cwd), logged |-> FALSE, threw |-> FALSE])
    ELSE [value |-> cwd, logged |-> FALSE, threw |-> FALSE]

\* Mutant: the resolved value is ignored.
getCwd_explicit_unresolved(resolved, unresolved) == unresolved

\* resolved || unresolved
getCwd_explicit(resolved, unresolved) == IF Truthy(resolved) THEN resolved ELSE unresolved

\* Mutant: the user home is preferred to the workspace root.
getCwd_fallback_homeFirst(root, userHome) ==
    IF Truthy(userHome) THEN userHome ELSE IF root # None THEN root[1] ELSE <<>>

\* root ? root.fsPath : userHome || ''
getCwd_fallback(root, userHome) ==
    IF root # None THEN root[1] ELSE IF Truthy(userHome) THEN userHome ELSE <<>>

\* if (customCwd) { ... }: the cwd a resolved configured cwd gives, or undefined.
getCwd_custom(win, customCwd, root) ==
    IF Truthy(customCwd)
    THEN (IF isAbsolute(win, customCwd) THEN customCwd
          ELSE IF root # None THEN pathJoin(win, <<root[1], customCwd>>)
          ELSE UNDEFINED)
    ELSE UNDEFINED

\* shell.cwd is [type |-> "undefined" | "string" | "object", value |-> the
\* string, or the fsPath of the Uri].
getCwd(win, shell, userHome, resolver, root, customCwd, logService) ==
    IF shell.cwd.type = "object" \/ (shell.cwd.type = "string" /\ shell.cwd.value # <<>>)
    THEN LET unresolved == shell.cwd.value
             resolved   == resolveCwd(unresolved, resolver, FALSE)
         IN  IF resolved.threw
             THEN [value |-> UNDEFINED, logged |-> FALSE, threw |-> TRUE]
             ELSE [value |-> sanitizeCwd(win, getCwd_explicit(resolved.value, unresolved)),
                   logged |-> resolved.logged, threw |-> FALSE]
    ELSE LET useCustom == ~shell.ignoreConfigurationCwd /\ Truthy(customCwd)
             resolved  == IF useCustom /\ resolver # None
                          THEN resolveCwd(customCwd, resolver, logService)
                          ELSE [value |-> customCwd, logged |-> FALSE, threw |-> FALSE]
             cwd       == IF useCustom THEN getCwd_custom(win, resolved.value, root)
                          ELSE UNDEFINED
         IN  IF resolved.threw
             THEN [value |-> UNDEFINED, logged |-> FALSE, threw |-> TRUE]
             ELSE [value |-> sanitizeCwd(win, IF ~Truthy(cwd) THEN getCwd_fallback(root, userHome)
                                               ELSE cwd),
                   logged |-> resolved.logged, threw |-> FALSE]

CW_Idle == [pc |-> "idle", shell |-> [cwd |-> [type |-> "undefined", value |-> <<>>],
                                      ignoreConfigurationCwd |-> FALSE],
            userHome |-> UNDEFINED, resolver |-> None, root |-> None, customCwd |-> UNDEFINED,
            logService |-> FALSE, result |-> [value |-> <<>>, logged |-> FALSE, threw |-> FALSE]]

getCwd_Call(shell, userHome, resolver, root, customCwd, logService) ==
    /\ cw.pc = "idle"
    /\ cw' = [pc |-> "done", shell |-> shell, userHome |-> userHome, resolver |-> resolver,
              root |-> root, customCwd |-> customCwd, logService |-> logService,
              result |-> getCwd(isWindows, shell, userHome, resolver, root, customCwd, logService)]
    /\ UNCHANGED <<isWindows, fe, mg, te, lg>>

getCwd_Return ==
    /\ cw.pc = "done"
    /\ cw' = CW_Idle
    /\ UNCHANGED <<isWindows, fe, mg, te, lg>>

\* An absolute path of the platform: /n, or c:\n on Windows.
AbsolutePath(win, n) == IF win THEN <<"c", ":", "\\", n>> ELSE <<"/", n>>

\* Inputs of getCwd.
CW_ShellCwds ==
    {[type |-> "undefined", value |-> <<>>],
     [type |-> "string", value |-> <<>>],
     [type |-> "string", value |-> AbsolutePath(isWindows, "t")],
     [type |-> "string", value |-> <<"$">>],
     [type |-> "string", value |-> <<"!">>],
     [type |-> "object", value |-> AbsolutePath(isWindows, "u")],
     [type |-> "object", value |-> <<>>]}
CW_Shells == [cwd : CW_ShellCwds, ignoreConfigurationCwd : BOOLEAN]
CW_UserHomes == {UNDEFINED, <<>>, AbsolutePath(isWindows, "h")}
CW_Resolvers == {None} \cup {Some([subst |-> x]) : x \in {AbsolutePath(isWindows, "r"), <<"r">>, <<>>}}
CW_Roots == {None, Some(AbsolutePath(isWindows, "w"))}
CW_CustomCwds == {UNDEFINED, <<>>, AbsolutePath(isWindows, "c"), <<"s">>, <<"$">>, <<"!">>}

\* ------------------------------------ shouldSetLangEnvVariable, getLangEnvVariable

K_LANG == <<"L", "A", "N", "G">>

\* lang.search(/\.euc.+/) !== -1: ".euc" and at least one more character
\* somewhere in lang (values hold no line terminator, so "." matches any
\* character of them).
MatchesEuc(lang) ==
    \E i \in 1..Len(lang) :
        /\ i + 4 <= Len(lang)
        /\ SubSeq(lang, i, i + 3) = <<".", "e", "u", "c">>

\* Mutant: the .euc check is anchored to nothing and needs no variant name.
shouldSetLangEnvVariable_bareEuc(env, detectLocale) ==
    IF detectLocale = "on" THEN TRUE
    ELSE IF detectLocale = "auto"
    THEN LET lang == Get(env, K_LANG)
         IN  \/ ~Truthy(lang)
             \/ /\ ~EndsWith(lang, <<".", "U", "T", "F", "-", "8">>)
                /\ ~EndsWith(lang, <<".", "u", "t", "f", "8">>)
                /\ ~\E i \in 1..Len(lang) : i + 3 <= Len(lang)
                                            /\ SubSeq(lang, i, i + 3) = <<".", "e", "u", "c">>
    ELSE FALSE

shouldSetLangEnvVariable(env, detectLocale) ==
    IF detectLocale = "on" THEN TRUE
    ELSE IF detectLocale = "auto"
    THEN LET lang == Get(env, K_LANG)
         IN  \/ ~Truthy(lang)
             \/ /\ ~EndsWith(lang, <<".", "U", "T", "F", "-", "8">>)
                /\ ~EndsWith(lang, <<".", "u", "t", "f", "8">>)
                /\ ~MatchesEuc(lang)
    ELSE FALSE

\* const languageVariants: language code -> default region.
languageVariants ==
    <<
       <<<<"a", "f">>, <<"Z", "A">>>>, <<<<"a", "m">>, <<"E", "T">>>>, <<<<"b", "e">>, <<"B", "Y">>>>,
       <<<<"b", "g">>, <<"B", "G">>>>, <<<<"c", "a">>, <<"E", "S">>>>, <<<<"c", "s">>, <<"C", "Z">>>>,
       <<<<"d", "a">>, <<"D", "K">>>>, <<<<"d", "e">>, <<"D", "E">>>>, <<<<"e", "l">>, <<"G", "R">>>>,
       <<<<"e", "n">>, <<"U", "S">>>>, <<<<"e", "s">>, <<"E", "S">>>>, <<<<"e", "t">>, <<"E", "E">>>>,
       <<<<"e", "u">>, <<"E", "S">>>>, <<<<"f", "i">>, <<"F", "I">>>>, <<<<"f", "r">>, <<"F", "R">>>>,
       <<<<"h", "e">>, <<"I", "L">>>>, <<<<"h", "r">>, <<"H", "R">>>>, <<<<"h", "u">>, <<"H", "U">>>>,
       <<<<"h", "y">>, <<"A", "M">>>>, <<<<"i", "s">>, <<"I", "S">>>>, <<<<"i", "t">>, <<"I", "T">>>>,
       <<<<"j", "a">>, <<"J", "P">>>>, <<<<"k", "k">>, <<"K", "Z">>>>, <<<<"k", "o">>, <<"K", "R">>>>,
       <<<<"l", "t">>, <<"L", "T">>>>, <<<<"n", "l">>, <<"N", "L">>>>, <<<<"n", "o">>, <<"N", "O">>>>,
       <<<<"p", "l">>, <<"P", "L">>>>, <<<<"p", "t">>, <<"B", "R">>>>, <<<<"r", "o">>, <<"R", "O">>>>,
       <<<<"r", "u">>, <<"R", "U">>>>, <<<<"s", "k">>, <<"S", "K">>>>, <<<<"s", "l">>, <<"S", "I">>>>,
       <<<<"s", "r">>, <<"Y", "U">>>>, <<<<"s", "v">>, <<"S", "E">>>>, <<<<"t", "r">>, <<"T", "R">>>>,
       <<<<"u", "k">>, <<"U", "A">>>>, <<<<"z", "h">>, <<"C", "N">>>>
    >>

\* languageVariants[language], or UNDEFINED when `language` is no key of it.
languageVariant(language) ==
    IF \E i \in 1..Len(languageVariants) : languageVariants[i][1] = language
    THEN languageVariants[CHOOSE i \in 1..Len(languageVariants) :
                              languageVariants[i][1] = language][2]
    ELSE UNDEFINED

UTF8 == <<".", "U", "T", "F", "-", "8">>

\* Mutant: every segment after the first is upper-cased.
getLangEnvVariable_variant_upperAll(parts) ==
    [i \in 1..Len(parts) |-> IF i >= 2 THEN toUpperCase(parts[i]) ELSE parts[i]]

\* parts[1] = parts[1].toUpperCase(), for n >= 2 (parts are indexed from 1 here).
getLangEnvVariable_variant(parts) == [parts EXCEPT ![2] = toUpperCase(parts[2])]

getLangEnvVariable(locale) ==
    LET parts == IF Truthy(locale) THEN split(locale, "-") ELSE <<>>
        n     == Len(parts)
    IN  IF n = 0 THEN <<"e", "n", "_", "U", "S">> \o UTF8
        ELSE IF n = 1
        THEN (IF languageVariant(parts[1]) # UNDEFINED
              THEN join(Append(parts, languageVariant(parts[1])), "_") \o UTF8
              ELSE join(parts, "_") \o UTF8)
        ELSE join(getLangEnvVariable_variant(parts), "_") \o UTF8

LG_Idle == [pc |-> "idle", fn |-> "", locale |-> UNDEFINED, env |-> <<>>,
            detectLocale |-> "off", lang |-> UNDEFINED, should |-> FALSE]

getLangEnvVariable_Call(locale) ==
    /\ lg.pc = "idle"
    /\ lg' = [LG_Idle EXCEPT !.pc = "done", !.fn = "getLangEnvVariable", !.locale = locale,
                             !.lang = getLangEnvVariable(locale)]
    /\ UNCHANGED <<isWindows, fe, mg, te, cw>>

shouldSetLangEnvVariable_Call(env, detectLocale) ==
    /\ lg.pc = "idle"
    /\ lg' = [LG_Idle EXCEPT !.pc = "done", !.fn = "shouldSetLangEnvVariable", !.env = env,
                             !.detectLocale = detectLocale,
                             !.should = shouldSetLangEnvVariable(env, detectLocale)]
    /\ UNCHANGED <<isWindows, fe, mg, te, cw>>

Lang_Return ==
    /\ lg.pc = "done"
    /\ lg' = LG_Idle
    /\ UNCHANGED <<isWindows, fe, mg, te, cw>>

\* Every string of at most `max` characters of `alphabet`.
Strings(alphabet, max) == UNION {[1..n -> alphabet] : n \in 0..max}

\* Every concatenation of at most `max` pieces of `pieces`.
RECURSIVE Concatenations(_, _)
Concatenations(pieces, max) ==
    IF max = 0 THEN {<<>>}
    ELSE LET shorter == Concatenations(pieces, max - 1)
         IN  shorter \cup {s \o q : s \in shorter, q \in pieces}

\* Inputs: locale tags, and LANG values built from the endings the code tests.
LG_Locales == {UNDEFINED} \cup Strings({"p", "t", "R", "-"}, MaxLocaleLen)
             \cup {<<"f", "r">>, <<"x", "x">>}
LG_LangPieces == {UTF8, <<".", "u", "t", "f", "8">>, <<".", "U", "T", "F", "8">>,
                  <<".", "e", "u", "c">>, <<".", "E", "U", "C">>, <<"J">>}
LG_LangValues == Concatenations(LG_LangPieces, MaxLangPieces)
LG_Envs == {<<>>, <<[key |-> <<"l", "a", "n", "g">>, value |-> UTF8]>>}
           \cup {<<[key |-> K_LANG, value |-> v]>> : v \in LG_LangValues}
DetectLocales == {"auto", "off", "on"}


\* ------------------------------------------------ createTerminalEnvironment

K_TERM_PROGRAM == <<"T", "E", "R", "M", "_", "P", "R", "O", "G", "R", "A", "M">>
K_TERM_PROGRAM_VERSION == K_TERM_PROGRAM \o <<"_", "V", "E", "R", "S", "I", "O", "N">>
K_COLORTERM == <<"C", "O", "L", "O", "R", "T", "E", "R", "M">>
K_VSCODE_IPC_HOOK_CLI == <<"V", "S", "C", "O", "D", "E", "_", "I", "P", "C", "_",
                           "H", "O", "O", "K", "_", "C", "L", "I">>
V_vscode == <<"v", "s", "c", "o", "d", "e">>
V_truecolor == <<"t", "r", "u", "e", "c", "o", "l", "o", "r">>

\* platform.locale
platformLocale == <<"p", "t", "-", "b", "r">>

\* Mutant: every value but null and undefined is copied, "" included.
mergeNonNullKeys_copied_nonNull(value) == isString(value)

\* if (value)
mergeNonNullKeys_copied(value) == Truthy(value)

RECURSIVE mergeNonNullKeys_keys(_, _)
mergeNonNullKeys_keys(env, entries) ==
    IF entries = <<>> THEN env
    ELSE mergeNonNullKeys_keys(
             IF mergeNonNullKeys_copied(entries[1].value)
             THEN Set(env, entries[1].key, entries[1].value) ELSE env,
             Tail(entries))

mergeNonNullKeys(env, other) ==
    IF other = None THEN env ELSE mergeNonNullKeys_keys(env, other[1])

\* Every string value is replaced by what the resolver gives for it, and kept
\* when the resolver throws; the object is changed in place.
resolveConfigurationVariables(resolver, env) ==
    [i \in 1..Len(env) |->
        IF isString(env[i].value)
        THEN [key |-> env[i].key,
              value |-> IF variableResolver(resolver, env[i].value) = THROWN
                        THEN env[i].value
                        ELSE variableResolver(resolver, env[i].value)]
        ELSE env[i]]

\* processes.sanitizeProcessEnvironment: the inherited keys it strips.
SanitizedKeys == {K_VSCODE_IPC_HOOK_CLI}

sanitizeProcessEnvironment(env) == SelectSeq(env, LAMBDA p : p.key \notin SanitizedKeys)

\* Mutant: a key the merged environment already holds is left as it is.
addTerminalEnvironmentKeys_keepExisting(env, version, loc, detectLocale) ==
    LET Put(e, k, v) == IF Has(e, k) THEN e ELSE Set(e, k, v)
        e1 == Put(env, K_TERM_PROGRAM, V_vscode)
        e2 == IF Truthy(version) THEN Put(e1, K_TERM_PROGRAM_VERSION, version) ELSE e1
        e3 == IF shouldSetLangEnvVariable(e2, detectLocale)
              THEN Set(e2, K_LANG, getLangEnvVariable(loc)) ELSE e2
    IN  Put(e3, K_COLORTERM, V_truecolor)

addTerminalEnvironmentKeys(env, version, loc, detectLocale) ==
    LET e1 == Set(env, K_TERM_PROGRAM, V_vscode)
        e2 == IF Truthy(version) THEN Set(e1, K_TERM_PROGRAM_VERSION, version) ELSE e1
        e3 == IF shouldSetLangEnvVariable(e2, detectLocale)
              THEN Set(e2, K_LANG, getLangEnvVariable(loc)) ELSE e2
    IN  Set(e3, K_COLORTERM, V_truecolor)

\* Mutant: the launch config's overlay is merged first, the configured one last.
createTerminalEnvironment_merged_launchFirst(win, env, allowedEnvFromConfig, slcEnv) ==
    mergeEnvironments(win, mergeEnvironments(win, env, slcEnv), Some(allowedEnvFromConfig))

\* Merge config (settings) and ShellLaunchConfig environments.
createTerminalEnvironment_merged(win, env, allowedEnvFromConfig, slcEnv) ==
    mergeEnvironments(win, mergeEnvironments(win, env, Some(allowedEnvFromConfig)), slcEnv)

\* Mutant: const allowedEnvFromConfig = envFromConfig, so that the writes of
\* resolveConfigurationVariables reach the caller's object.
createTerminalEnvironment_envFromConfigAfter_aliased(envFromConfig, allowedEnvFromConfig) ==
    IF envFromConfig = None THEN None ELSE Some(allowedEnvFromConfig)

\* const allowedEnvFromConfig = { ...envFromConfig }: a fresh object, so the
\* caller's envFromConfig after the call is what it was, whatever is written to
\* allowedEnvFromConfig.
createTerminalEnvironment_envFromConfigAfter(envFromConfig, allowedEnvFromConfig) ==
    envFromConfig

\* The environment returned, and the caller's objects after the call: the launch
\* config's env (resolveConfigurationVariables writes to it) and envFromConfig
\* (only its spread copy is resolved); baseEnv is only read.
createTerminalEnvironment(win, shellLaunchConfig, envFromConfig, resolver, version, detectLocale, baseEnv) ==
    IF shellLaunchConfig.strictEnv
    THEN [env |-> mergeNonNullKeys(<<>>, shellLaunchConfig.env),
          slcEnv |-> shellLaunchConfig.env,
          envFromConfig |-> envFromConfig]
    ELSE LET env0 == mergeNonNullKeys(<<>>, Some(baseEnv))
             allowedEnvFromConfig ==
                 LET copy == IF envFromConfig = None THEN <<>> ELSE envFromConfig[1]
                 IN  IF resolver # None THEN resolveConfigurationVariables(resolver[1], copy)
                     ELSE copy
             slcEnv == IF resolver # None /\ shellLaunchConfig.env # None
                       THEN Some(resolveConfigurationVariables(resolver[1], shellLaunchConfig.env[1]))
                       ELSE shellLaunchConfig.env
             env1 == sanitizeProcessEnvironment(env0)
             env2 == createTerminalEnvironment_merged(win, env1, allowedEnvFromConfig, slcEnv)
         IN  [env |-> addTerminalEnvironmentKeys(env2, version, platformLocale, detectLocale),
              slcEnv |-> slcEnv,
              envFromConfig |-> createTerminalEnvironment_envFromConfigAfter(
                                    envFromConfig, allowedEnvFromConfig)]

TE_Idle == [pc |-> "idle", shellLaunchConfig |-> [strictEnv |-> FALSE, env |-> None],
            envFromConfig |-> None, resolver |-> None, version |-> UNDEFINED,
            detectLocale |-> "off", baseEnv |-> <<>>, env |-> <<>>, slcEnvAfter |-> None,
            envFromConfigAfter |-> None, baseEnvAfter |-> <<>>]

createTerminalEnvironment_Call(shellLaunchConfig, envFromConfig, resolver, version, detectLocale, baseEnv) ==
    /\ te.pc = "idle"
    /\ LET r == createTerminalEnvironment(isWindows, shellLaunchConfig, envFromConfig, resolver,
                                          version, detectLocale, baseEnv)
       IN  te' = [pc |-> "done", shellLaunchConfig |-> shellLaunchConfig,
                  envFromConfig |-> envFromConfig, resolver |-> resolver, version |-> version,
                  detectLocale |-> detectLocale, baseEnv |-> baseEnv, env |-> r.env,
                  slcEnvAfter |-> r.slcEnv, envFromConfigAfter |-> r.envFromConfig,
                  baseEnvAfter |-> baseEnv]
    /\ UNCHANGED <<isWindows, fe, mg, cw, lg>>

createTerminalEnvironment_Return ==
    /\ te.pc = "done"
    /\ te' = TE_Idle
    /\ UNCHANGED <<isWindows, fe, mg, cw, lg>>

K_a == <<"a">>

\* A process environment of the platform: on Windows no two names are equal
\* ignoring case.
IsEnvironment(win, env) ==
    win => \A i, j \in 1..Len(env) :
               i # j => toLowerCase(env[i].key) # toLowerCase(env[j].key)

OptionalObjects(keys, values, max) == {None} \cup {Some(o) : o \in Objects(keys, values, max)}

TE_Resolvers == {None, Some([subst |-> <<"v">>])}

\* Inputs, strict mode: the launch config's env decides alone.
TS_Keys == {K_A, K_a, K_TERM_PROGRAM}
TS_SlcEnvs == OptionalObjects(TS_Keys, {<<"1">>, <<>>, NULL, UNDEFINED}, MaxStrictEntries)
TS_BaseEnvs == {<<>>, <<[key |-> K_A, value |-> <<"b">>], [key |-> K_LANG, value |-> <<"C">>]>>}
TS_EnvsFromConfig == {None, Some(<<[key |-> K_A, value |-> <<"c">>]>>)}
TS_Versions == {UNDEFINED, <<>>, <<"9">>}

\* Inputs, the three layers: one name in two spellings (and a sanitized key in
\* the base environment); "$" is a variable reference, "!" one the resolver
\* throws on.
TL_Keys == {K_A, K_a}
TL_BaseEnvs ==
    {e \in Objects(TL_Keys, {<<"b">>, <<>>}, MaxLayerEntries) : IsEnvironment(isWindows, e)}
    \cup {<<[key |-> K_VSCODE_IPC_HOOK_CLI, value |-> <<"i">>]>> \o e :
             e \in Objects(TL_Keys, {<<"b">>}, 1)}
TL_EnvsFromConfig == OptionalObjects(TL_Keys, {<<"$">>, NULL, UNDEFINED}, MaxLayerEntries)
TL_SlcEnvs == OptionalObjects(TL_Keys, {<<"l">>, <<"$">>, <<"!">>, <<>>, NULL}, MaxLayerEntries)

\* Inputs, the stamped keys in every layer.
TK_Keys == {K_TERM_PROGRAM, K_TERM_PROGRAM_VERSION, K_COLORTERM}
TK_BaseEnvs == Objects(TK_Keys, {<<"b">>}, MaxStampEntries)
TK_EnvsFromConfig == OptionalObjects(TK_Keys, {<<"c">>, NULL}, MaxStampEntries)
TK_SlcEnvs == OptionalObjects(TK_Keys, {<<"l">>, NULL}, MaxStampEntries)
TK_Versions == {UNDEFINED, <<>>, <<"9">>}

Init ==
    /\ isWindows \in BOOLEAN
    /\ fe = FE_Idle
    /\ mg = MG_Idle
    /\ te = TE_Idle
    /\ cw = CW_Idle
    /\ lg = LG_Idle

NextFind ==
    \/ /\ fe.pc = "idle"
       /\ \E command \in FE_Commands, cwdGiven \in FE_Cwds, env \in FE_Envs,
             pathsGiven \in {None} \cup {Some(l) : l \in FE_PathLists} :
             findExecutable_Call(command, cwdGiven, pathsGiven, env)
    \/ \E found \in BOOLEAN : findExecutable_AwaitAbsolute(found)
    \/ \E found \in BOOLEAN : findExecutable_AwaitRelative(found)
    \/ \E found \in BOOLEAN : findExecutable_AwaitNoPath(found)
    \/ \E found \in BOOLEAN : findExecutable_AwaitEntry(found)
    \/ \E found \in BOOLEAN : findExecutable_AwaitCom(found)
    \/ \E found \in BOOLEAN : findExecutable_AwaitExe(found)
    \/ \E found \in BOOLEAN : findExecutable_AwaitFinal(found)
    \/ findExecutable_Settled

SpecFind == Init /\ [][NextFind]_vars

NextMerge ==
    \/ /\ mg.pc = "idle"
       /\ \E parent \in MG_Parents, other \in MG_Others : mergeEnvironments_Call(parent, other)
    \/ mergeEnvironments_Key
    \/ mergeEnvironments_Return

SpecMerge == Init /\ [][NextMerge]_vars

NextLang ==
    \/ /\ lg.pc = "idle"
       /\ \E loc \in LG_Locales : getLangEnvVariable_Call(loc)
    \/ /\ lg.pc = "idle"
       /\ \E env \in LG_Envs, detectLocale \in DetectLocales :
             shouldSetLangEnvVariable_Call(env, detectLocale)
    \/ Lang_Return

SpecLang == Init /\ [][NextLang]_vars

NextStrict ==
    \/ /\ te.pc = "idle"
       /\ \E env \in TS_SlcEnvs, envFromConfig \in TS_EnvsFromConfig, resolver \in TE_Resolvers,
             version \in TS_Versions, detectLocale \in DetectLocales, baseEnv \in TS_BaseEnvs :
             createTerminalEnvironment_Call([strictEnv |-> TRUE, env |-> env], envFromConfig,
                                            resolver, version, detectLocale, baseEnv)
    \/ createTerminalEnvironment_Return

SpecStrict == Init /\ [][NextStrict]_vars

NextLayers ==
    \/ /\ te.pc = "idle"
       /\ \E env \in TL_SlcEnvs, envFromConfig \in TL_EnvsFromConfig, resolver \in TE_Resolvers,
             baseEnv \in TL_BaseEnvs :
             createTerminalEnvironment_Call([strictEnv |-> FALSE, env |-> env], envFromConfig,
                                            resolver, <<"9">>, "auto", baseEnv)
    \/ createTerminalEnvironment_Return

SpecLayers == Init /\ [][NextLayers]_vars

NextStamp ==
    \/ /\ te.pc = "idle"
       /\ \E env \in TK_SlcEnvs, envFromConfig \in TK_EnvsFromConfig, version \in TK_Versions,
             baseEnv \in TK_BaseEnvs :
             createTerminalEnvironment_Call([strictEnv |-> FALSE, env |-> env], envFromConfig,
                                            None, version, "auto", baseEnv)
    \/ createTerminalEnvironment_Return

SpecStamp == Init /\ [][NextStamp]_vars

NextCwd ==
    \/ /\ cw.pc = "idle"
       /\ \E shell \in CW_Shells, userHome \in CW_UserHomes, resolver \in CW_Resolvers,
             root \in CW_Roots, customCwd \in CW_CustomCwds, logService \in BOOLEAN :
             getCwd_Call(shell, userHome, resolver, root, customCwd, logService)
    \/ getCwd_Return

SpecCwd == Init /\ [][NextCwd]_vars

\* ------------------------------------------------------ claims: findExecutable

\* The search list of the call in progress (empty when there is none).
FE_SearchList ==
    LET l == findExecutable_paths(isWindows, fe.pathsGiven, fe.env)
    IN  IF l = None THEN <<>> ELSE l[1]

FE_SimpleName == ~isAbsolute(isWindows, fe.command) /\ dirname(isWindows, fe.command) = <<".">>

\* The candidates of a simple file name in probing order: per search-list entry
\* entry/command (the entry joined to cwd first when it is relative), on
\* Windows then .com and .exe of it; after the last entry cwd/command.
RECURSIVE C1_Candidates(_, _, _, _)
C1_Candidates(win, cwd, command, list) ==
    IF list = <<>> THEN <<pathJoin(win, <<cwd, command>>)>>
    ELSE LET entry == Head(list)
             dir   == IF isAbsolute(win, entry) THEN entry ELSE pathJoin(win, <<cwd, entry>>)
             base  == pathJoin(win, <<dir, command>>)
         IN  <<base>>
             \o (IF win THEN <<base \o <<".", "c", "o", "m">>, base \o <<".", "e", "x", "e">>>>
                        ELSE <<>>)
             \o C1_Candidates(win, cwd, command, Tail(list))

\* C1: for a simple file name and a non-empty search list, the probes are the
\* candidates in order, one at a time; each probe before the last one answered
\* false; the call returns the first candidate whose probe answered true and
\* probes nothing after it; it returns undefined only when every candidate was
\* probed and answered false.
C1_ProbeOrder ==
    (fe.pc # "idle" /\ FE_SimpleName /\ FE_SearchList # <<>>) =>
        LET cwd == IF fe.cwdGiven = UNDEFINED THEN ProcessCwd ELSE fe.cwdGiven
            exp == C1_Candidates(isWindows, cwd, fe.command, FE_SearchList)
            n   == Len(fe.probes)
        IN  /\ n <= Len(exp)
            /\ \A i \in 1..n : fe.probes[i].path = exp[i]
            /\ \A i \in 1..(n - 1) : ~fe.probes[i].found
            /\ fe.pc # "done" =>
                 /\ n < Len(exp)
                 /\ fe.pending = exp[n + 1]
                 /\ \A i \in 1..n : ~fe.probes[i].found
            /\ fe.pc = "done" =>
                 /\ n >= 1
                 /\ fe.probes[n].found => fe.result = exp[n]
                 /\ ~fe.probes[n].found => (n = Len(exp) /\ fe.result = UNDEFINED)

\* On Windows the second entry's .exe is returned after five probes answered false.
C1_Witness ==
    /\ fe.pc = "done" /\ isWindows /\ FE_SimpleName
    /\ Len(FE_SearchList) = 2
    /\ Len(fe.probes) = 6
    /\ fe.probes[6].found
    /\ EndsWith(fe.result, <<".", "e", "x", "e">>)

\* C2: whatever the shape of the command, a returned value is undefined or the
\* path of the call's last probe, which answered true; an absolute command is
\* probed once, as given, and nothing else is probed for it.
C2_ReturnsProbedPath ==
    /\ fe.pc = "done" =>
         \/ fe.result = UNDEFINED
         \/ /\ fe.probes # <<>>
            /\ fe.probes[Len(fe.probes)].path = fe.result
            /\ fe.probes[Len(fe.probes)].found
    /\ (fe.pc # "idle" /\ isAbsolute(isWindows, fe.command)) =>
         /\ \A i \in 1..Len(fe.probes) : fe.probes[i].path = fe.command
         /\ IF fe.pc = "done" THEN Len(fe.probes) = 1
                              ELSE fe.probes = <<>> /\ fe.pending = fe.command

\* An absolute command whose single probe answered false, with a search list given.
C2_Witness ==
    /\ fe.pc = "done"
    /\ isAbsolute(isWindows, fe.command)
    /\ fe.pathsGiven # None /\ fe.pathsGiven # Some(<<>>)
    /\ fe.result = UNDEFINED
    /\ Len(fe.probes) = 1 /\ ~fe.probes[1].found

\* --------------------------------------------------- claims: mergeEnvironments

\* What handling overlay key k with value v does to the parent: the write goes
\* to a key of the parent equal to k ignoring case when on Windows there is
\* one (no key spelled k is added), else to k as spelled; a string sets the
\* value under that key, null removes the key, every other key is untouched.
C3_KeyHandled(win, before, after, k, v) ==
    LET matches == {e \in Keys(before) : toLowerCase(e) = toLowerCase(k)}
        targets == IF win /\ matches # {} THEN matches ELSE {k}
    IN  v # UNDEFINED =>
          \E t \in targets :
            /\ isString(v) => (Keys(after) = Keys(before) \cup {t} /\ Get(after, t) = v)
            /\ v = NULL => Keys(after) = Keys(before) \ {t}
            /\ \A e \in Keys(before) \ {t} : Has(after, e) /\ Get(after, e) = Get(before, e)

\* After the call: with an undefined overlay the parent is as it was; a key of
\* the parent that matches no overlay key (ignoring case on Windows, exactly
\* elsewhere) keeps its spelling and its value.
C3_Frame ==
    mg.pc = "done" =>
      IF mg.other = None THEN mg.parent = mg.parent0
      ELSE \A e \in Keys(mg.parent0) :
             (\A i \in 1..Len(mg.other[1]) :
                 IF isWindows THEN toLowerCase(mg.other[1][i].key) # toLowerCase(e)
                              ELSE mg.other[1][i].key # e)
             => (Has(mg.parent, e) /\ Get(mg.parent, e) = Get(mg.parent0, e))

\* C3: mergeEnvironments handles each overlay key as C3_KeyHandled says, the
\* parent being the one the earlier keys of the overlay left; keys of the
\* parent matching no overlay key are kept, and an undefined overlay changes
\* nothing.
C3_MergeByKey ==
    [][/\ mg.pc = "keys" =>
            C3_KeyHandled(isWindows, mg.parent, mg'.parent,
                          mg.other[1][mg.idx].key, mg.other[1][mg.idx].value)
       /\ C3_Frame']_vars

\* On Windows {PATH: "x"} merged into {Path: "o"} gave {Path: "x"}.
C3_Witness ==
    /\ mg.pc = "done" /\ isWindows
    /\ mg.parent0 = <<[key |-> K_Path, value |-> <<"o">>]>>
    /\ mg.other = Some(<<[key |-> K_PATH, value |-> <<"x">>]>>)
    /\ mg.parent = <<[key |-> K_Path, value |-> <<"x">>]>>

\* ------------------------------------------------------------- claims: LANG

C9_Applies ==
    /\ lg.pc = "done" /\ lg.fn = "getLangEnvVariable"
    /\ Truthy(lg.locale)
    /\ \E i \in 1..Len(lg.locale) : lg.locale[i] = "-"

RECURSIVE C9_Further(_, _)
C9_Further(parts, k) ==
    IF k > Len(parts) THEN <<>> ELSE <<"_">> \o parts[k] \o C9_Further(parts, k + 1)

C10_EucVariantSuffix(lang) ==
    \E n \in 5..Len(lang) :
        SubSeq(lang, Len(lang) - n + 1, Len(lang) - n + 4) = <<".", "e", "u", "c">>

\* C10: "on" gives true and "off" false for every env; "auto" gives true
\* exactly when env has no LANG value (absent or empty) or the value ends
\* neither in ".UTF-8" nor in ".utf8" nor in ".euc" followed by a variant name
\* (at least one character), compared with case.
C10_ShouldSetLang ==
    (lg.pc = "done" /\ lg.fn = "shouldSetLangEnvVariable") =>
        LET lang   == IF Has(lg.env, K_LANG) THEN Get(lg.env, K_LANG) ELSE <<>>
            noLang == lang = <<>> \/ ~isString(lang)
        IN  /\ lg.detectLocale = "on" => lg.should
            /\ lg.detectLocale = "off" => ~lg.should
            /\ lg.detectLocale = "auto" =>
                 (lg.should <=>
                    \/ noLang
                    \/ /\ ~EndsWith(lang, <<".", "U", "T", "F", "-", "8">>)
                       /\ ~EndsWith(lang, <<".", "u", "t", "f", "8">>)
                       /\ ~C10_EucVariantSuffix(lang))

\* "auto" with LANG = "J.eucJ": LANG is left alone.
C10_Witness ==
    /\ lg.pc = "done" /\ lg.fn = "shouldSetLangEnvVariable"
    /\ lg.detectLocale = "auto"
    /\ Get(lg.env, K_LANG) = <<"J", ".", "e", "u", "c", "J">>
    /\ ~lg.should

\* ------------------------------------------------------------ claims: getCwd

\* The launch config carries an explicit cwd: a non-empty string or a Uri.
CW_ExplicitCwd ==
    cw.shell.cwd.type = "object" \/ (cw.shell.cwd.type = "string" /\ cw.shell.cwd.value # <<>>)

\* C7 as claimed: with an explicit cwd getCwd does not throw and returns the
\* sanitized resolver result whenever a resolver is present and does not throw,
\* the sanitized unresolved value otherwise.
C7_ReturnsResolverResult ==
    (cw.pc = "done" /\ CW_ExplicitCwd) =>
        LET unresolved == cw.shell.cwd.value
            resolves   == cw.resolver # None /\ variableResolver(cw.resolver[1], unresolved) # THROWN
        IN  /\ ~cw.result.threw
            /\ cw.result.value =
                 sanitizeCwd(isWindows, IF resolves THEN variableResolver(cw.resolver[1], unresolved)
                                        ELSE unresolved)

\* C7 (amended): with an explicit cwd getCwd does not throw and returns the
\* sanitized resolver result when a resolver is present, does not throw and
\* gives a non-empty string; it returns the sanitized unresolved value when
\* there is no resolver, the resolver throws or it gives the empty string.
\* Nothing else (userHome, root, configured cwd, ignoreConfigurationCwd) is read.
C7_ReturnsNonEmptyResolverResult ==
    (cw.pc = "done" /\ CW_ExplicitCwd) =>
        LET unresolved == cw.shell.cwd.value
            resolves   == /\ cw.resolver # None
                          /\ variableResolver(cw.resolver[1], unresolved) # THROWN
                          /\ variableResolver(cw.resolver[1], unresolved) # <<>>
        IN  /\ ~cw.result.threw
            /\ cw.result.value =
                 sanitizeCwd(isWindows, IF resolves THEN variableResolver(cw.resolver[1], unresolved)
                                        ELSE unresolved)

\* The resolver threw on the explicit cwd "!" and the unresolved value came
\* back, with a workspace root and a configured cwd at hand.
C7_Witness ==
    /\ cw.pc = "done"
    /\ cw.shell.cwd = [type |-> "string", value |-> <<"!">>]
    /\ cw.resolver # None /\ cw.root # None /\ Truthy(cw.customCwd)
    /\ cw.result = [value |-> <<"!">>, logged |-> FALSE, threw |-> FALSE]

\* C8: without an explicit cwd getCwd returns the sanitized form of the first
\* applicable of (a) the resolved configured cwd when absolute, (b) the root
\* joined with it when relative and a root is known, (c) the root path, (d) the
\* user home, (e) ""; (a) and (b) need ignoreConfigurationCwd unset, a
\* configured cwd supplied and no resolver exception.  A resolver exception
\* is logged (to the logger, when one is passed), not thrown, and the call
\* then returns what it returns with no configured cwd.
C8_CwdPrecedence ==
    (cw.pc = "done" /\ ~CW_ExplicitCwd) =>
        LET supplied == ~cw.shell.ignoreConfigurationCwd /\ Truthy(cw.customCwd)
            threw    == /\ supplied /\ cw.resolver # None
                        /\ variableResolver(cw.resolver[1], cw.customCwd) = THROWN
            custom   == IF cw.resolver # None THEN variableResolver(cw.resolver[1], cw.customCwd)
                        ELSE cw.customCwd
            usable   == supplied /\ ~threw
            expected == IF usable /\ isAbsolute(isWindows, custom) THEN custom
                        ELSE IF usable /\ cw.root # None
                        THEN pathJoin(isWindows, <<cw.root[1], custom>>)
                        ELSE IF cw.root # None THEN cw.root[1]
                        ELSE IF cw.userHome # UNDEFINED THEN cw.userHome
                        ELSE <<>>
        IN  /\ ~cw.result.threw
            /\ cw.result.value = sanitizeCwd(isWindows, expected)
            /\ cw.result.logged = (threw /\ cw.logService)
            /\ threw => cw.result.value =
                          getCwd(isWindows, cw.shell, cw.userHome, cw.resolver, cw.root,
                                 UNDEFINED, cw.logService).value

\* The resolver threw on the configured cwd "!": logged, and the root came back.
C8_Witness ==
    /\ cw.pc = "done" /\ ~CW_ExplicitCwd
    /\ ~cw.shell.ignoreConfigurationCwd
    /\ cw.customCwd = <<"!">> /\ cw.resolver # None /\ cw.logService
    /\ cw.root # None /\ Truthy(cw.userHome)
    /\ cw.result = [value |-> sanitizeCwd(isWindows, cw.root[1]), logged |-> TRUE, threw |-> FALSE]

\* ------------------------------------------- claims: createTerminalEnvironment

TE_SlcEnv == IF te.shellLaunchConfig.env = None THEN <<>> ELSE te.shellLaunchConfig.env[1]
TE_EnvFromConfig == IF te.envFromConfig = None THEN <<>> ELSE te.envFromConfig[1]

\* C4: in strict mode the result holds exactly the entries of the launch
\* config's env whose value is a non-empty string, under the keys as spelled
\* there, whatever baseEnv, envFromConfig, the resolver, version and
\* detectLocale are; no key is stamped.
C4_StrictEnv ==
    (te.pc = "done" /\ te.shellLaunchConfig.strictEnv) =>
        /\ \A i, j \in 1..Len(te.env) : i # j => te.env[i].key # te.env[j].key
        /\ \A k \in Keys(te.env) \cup Keys(TE_SlcEnv)
                    \cup {K_TERM_PROGRAM, K_TERM_PROGRAM_VERSION, K_LANG, K_COLORTERM} :
              IF Has(TE_SlcEnv, k) /\ isString(Get(TE_SlcEnv, k)) /\ Get(TE_SlcEnv, k) # <<>>
              THEN Has(te.env, k) /\ Get(te.env, k) = Get(TE_SlcEnv, k)
              ELSE ~Has(te.env, k)

\* Strict mode with env {A: "1", a: null}, a base environment, a configured
\* overlay and a version: the result is {A: "1"}.
C4_Witness ==
    /\ te.pc = "done" /\ te.shellLaunchConfig.strictEnv
    /\ TE_SlcEnv = <<[key |-> K_A, value |-> <<"1">>], [key |-> K_a, value |-> NULL]>>
    /\ te.baseEnv # <<>> /\ te.envFromConfig # None /\ te.version = <<"9">>
    /\ te.env = <<[key |-> K_A, value |-> <<"1">>]>>

\* Two keys name the same variable: exactly off Windows, ignoring case on it.
C5_Match(k1, k2) == IF isWindows THEN toLowerCase(k1) = toLowerCase(k2) ELSE k1 = k2

\* The properties of an overlay that mention K (an undefined value does not).
C5_Mentions(overlay, K) ==
    {i \in 1..Len(overlay) : C5_Match(overlay[i].key, K) /\ overlay[i].value # UNDEFINED}

\* What an overlay that mentions K gives for it: null leaves K absent, a
\* string gives the string as the resolver (if any, and if it does not throw)
\* resolves it.  Of two spellings of K in one overlay the later one counts.
C5_Decision(overlay, K) ==
    LET m == C5_Mentions(overlay, K)
        v == overlay[CHOOSE i \in m : \A j \in m : j <= i].value
    IN  IF v = NULL THEN UNDEFINED
        ELSE IF te.resolver # None /\ variableResolver(te.resolver[1], v) # THROWN
        THEN variableResolver(te.resolver[1], v)
        ELSE v

\* The value the environment returned holds for K, UNDEFINED when there is none.
C5_Final(K) ==
    LET m == {i \in 1..Len(te.env) : C5_Match(te.env[i].key, K)}
    IN  IF m = {} THEN UNDEFINED ELSE te.env[CHOOSE i \in m : \A j \in m : i <= j].value

C5_Inherited(K) ==
    LET m == {i \in 1..Len(te.baseEnv) : C5_Match(te.baseEnv[i].key, K)}
    IN  IF m # {} /\ Truthy(te.baseEnv[CHOOSE i \in m : TRUE].value)
        THEN te.baseEnv[CHOOSE i \in m : TRUE].value
        ELSE UNDEFINED

\* The keys C5 speaks of: not stamped, not removed by sanitization.
C5_Keys ==
    {K \in Keys(te.baseEnv) \cup Keys(TE_EnvFromConfig) \cup Keys(TE_SlcEnv) \cup {K_A, K_a} :
        \A s \in {K_TERM_PROGRAM, K_TERM_PROGRAM_VERSION, K_LANG, K_COLORTERM} \cup SanitizedKeys :
            ~C5_Match(K, s)}

\* C5: in non-strict mode the value of such a key K is decided by the first of
\* the launch config's overlay, the configured overlay and the base environment
\* that mentions K: an overlay's string gives the resolved string, an overlay's
\* null leaves K absent whatever the lower layers hold, and a base value is
\* inherited only when it is a non-empty string.
C5_LayerPrecedence ==
    (te.pc = "done" /\ ~te.shellLaunchConfig.strictEnv) =>
        \A K \in C5_Keys :
            C5_Final(K) =
                IF C5_Mentions(TE_SlcEnv, K) # {} THEN C5_Decision(TE_SlcEnv, K)
                ELSE IF C5_Mentions(TE_EnvFromConfig, K) # {} THEN C5_Decision(TE_EnvFromConfig, K)
                ELSE C5_Inherited(K)

\* The launch config's null for A wins over the configured "$" and the base "b".
C5_Witness ==
    /\ te.pc = "done" /\ ~te.shellLaunchConfig.strictEnv
    /\ TE_SlcEnv = <<[key |-> K_A, value |-> NULL]>>
    /\ Get(TE_EnvFromConfig, K_A) = <<"$">>
    /\ Get(te.baseEnv, K_A) = <<"b">>
    /\ te.resolver # None
    /\ ~Has(te.env, K_A)

\* C6: in non-strict mode the result has TERM_PROGRAM = "vscode" and
\* COLORTERM = "truecolor", and TERM_PROGRAM_VERSION = version when version is
\* a non-empty string, whatever the three layers hold for these keys.
C6_StampedKeys ==
    (te.pc = "done" /\ ~te.shellLaunchConfig.strictEnv) =>
        /\ Get(te.env, K_TERM_PROGRAM) = V_vscode
        /\ Get(te.env, K_COLORTERM) = V_truecolor
        /\ Truthy(te.version) => Get(te.env, K_TERM_PROGRAM_VERSION) = te.version

\* The launch config sets TERM_PROGRAM to null, the configured overlay sets
\* COLORTERM and the base environment has a TERM_PROGRAM_VERSION.
C6_Witness ==
    /\ te.pc = "done" /\ ~te.shellLaunchConfig.strictEnv
    /\ TE_SlcEnv = <<[key |-> K_TERM_PROGRAM, value |-> NULL]>>
    /\ TE_EnvFromConfig = <<[key |-> K_COLORTERM, value |-> <<"c">>]>>
    /\ te.baseEnv = <<[key |-> K_TERM_PROGRAM_VERSION, value |-> <<"b">>]>>
    /\ te.version = <<"9">>
    /\ Get(te.env, K_TERM_PROGRAM) = V_vscode

\* What resolution in place leaves in an overlay object: every string value v
\* is resolver(v), or v when the resolver threw on it; any other value is as
\* it was, and so are the keys and their order.
C11_ResolvedInPlace(before, after) ==
    /\ Len(after) = Len(before)
    /\ \A i \in 1..Len(before) :
          /\ after[i].key = before[i].key
          /\ after[i].value =
                IF ~isString(before[i].value) THEN before[i].value
                ELSE IF variableResolver(te.resolver[1], before[i].value) = THROWN
                THEN before[i].value
                ELSE variableResolver(te.resolver[1], before[i].value)

C11_Applies == te.pc = "done" /\ ~te.shellLaunchConfig.strictEnv /\ te.resolver # None

\* C11 as claimed: with a resolver, both overlay objects the caller passed are
\* resolved in place, and the base environment object is not modified.
C11_BothResolvedInPlace ==
    C11_Applies =>
        /\ te.shellLaunchConfig.env # None =>
              /\ te.slcEnvAfter # None
              /\ C11_ResolvedInPlace(te.shellLaunchConfig.env[1], te.slcEnvAfter[1])
        /\ te.envFromConfig # None =>
              /\ te.envFromConfigAfter # None
              /\ C11_ResolvedInPlace(te.envFromConfig[1], te.envFromConfigAfter[1])
        /\ te.baseEnvAfter = te.baseEnv

\* C11 (amended): with a resolver, the launch config's overlay object is
\* resolved in place; the configured overlay object the caller passed is not
\* modified (a copy of it is resolved and merged), nor is the base environment.
C11_LaunchResolvedInPlace ==
    C11_Applies =>
        /\ te.shellLaunchConfig.env # None =>
              /\ te.slcEnvAfter # None
              /\ C11_ResolvedInPlace(te.shellLaunchConfig.env[1], te.slcEnvAfter[1])
        /\ te.shellLaunchConfig.env = None => te.slcEnvAfter = None
        /\ te.envFromConfigAfter = te.envFromConfig
        /\ te.baseEnvAfter = te.baseEnv

\* Both overlays hold a variable reference, the launch config's also a string
\* the resolver throws on: afterwards the launch config's env holds "v" and
\* "!", and the configured overlay still holds "$".
C11_Witness ==
    /\ C11_Applies
    /\ te.shellLaunchConfig.env =
           Some(<<[key |-> K_A, value |-> <<"$">>], [key |-> K_a, value |-> <<"!">>]>>)
    /\ te.slcEnvAfter =
           Some(<<[key |-> K_A, value |-> <<"v">>], [key |-> K_a, value |-> <<"!">>]>>)
    /\ te.envFromConfig = Some(<<[key |-> K_A, value |-> <<"$">>], [key |-> K_a, value |-> NULL]>>)
    /\ te.envFromConfigAfter = te.envFromConfig
    /\ te.baseEnv # <<>>
    /\ te.baseEnvAfter = te.baseEnv

====
